---- MODULE Spec2Model ----
(***************************************************************************)
(* Model of ddpg.py: the circular MemoryBuffer, the DDPGModel bookkeeping  *)
(* done by train (step counter, exploration variance, moving-average       *)
(* target parameters), and the program of the __main__ block: the main     *)
(* thread prefills the buffer, then starts ModelThread (the Learner) and   *)
(* BufferThread (the Producer), which share the buffer under LOCK and      *)
(* stop through the tf.train.Coordinator flag.                             *)
(***************************************************************************)
EXTENDS Integers, Sequences, FiniteSets, TLC

(***************************************************************************)
(* Sizes.  The program's values (CAPACITY = 10000, EP_MAXLEN = 200,        *)
(* N_ITERS = 500000, BATCH_SIZE = 128, WRITE_LOGS_EVERY = 200) are scaled  *)
(* down; the names are the program's.                                      *)
(***************************************************************************)
CAPACITY == 2
EP_MAXLEN == 2
N_ITERS == 1
BATCH_SIZE == 1
WRITE_LOGS_EVERY == 6
C_ITER == 1
S_DIM == 3
\* Length of an observation of the environment (Pendulum-v0).
EnvDim == 3
\* Episodes the Producer may begin (caps the otherwise endless while loop).
MaxEpisodes == 2
\* Largest step counter load() may restore from a checkpoint.
MaxLoadedCounter == 5
\* A MemoryBuffer used on its own: capacities, store_transition calls and
\* sample sizes explored.
MaxCapacity == 4
MaxCalls == 5
MaxNum == 2
\* DDPGModel.train and choose_action called on their own: calls explored.
MaxTrainCalls == 7
MaxChooseCalls == 1

\* Observations env.reset and env.step may return.
States == {1, 2}
\* The (s_next, r, done) results of env.step the program is run against.
StepResults ==
  { [s_next |-> 1, r |-> -8, done |-> FALSE],
    [s_next |-> 2, r |-> 0, done |-> TRUE] }
\* Parameter values load() may restore, and the moves one optimizer step may
\* make: in the running program, and for DDPGModel.train called on its own.
ParamValues == {0, 2}
GradSteps == {1}
AnyGradSteps == {0, 1}

(***************************************************************************)
(* Exact arithmetic for the float scalars.  The variance is a rational     *)
(* number num / den in lowest terms.                                       *)
(***************************************************************************)
Abs(x) == IF x < 0 THEN -x ELSE x

RECURSIVE GCD(_, _)
GCD(a, b) == IF b = 0 THEN a ELSE GCD(b, a % b)

Frac(n, d) ==
  LET g == GCD(Abs(n), d)
  IN  [num |-> n \div g, den |-> d \div g]

FracInt(n) == [num |-> n, den |-> 1]

FracMul(x, y) ==
  LET g1 == GCD(Abs(x.num), y.den)
      g2 == GCD(Abs(y.num), x.den)
  IN  [num |-> (x.num \div g1) * (y.num \div g2),
       den |-> (x.den \div g2) * (y.den \div g1)]

FracLeq(x, y) ==
  LET g == GCD(x.den, y.den)
      l == (x.den \div g) * y.den
  IN  x.num * (l \div x.den) <= y.num * (l \div y.den)

RECURSIVE FracPow(_, _)
FracPow(x, k) == IF k = 0 THEN FracInt(1) ELSE FracMul(x, FracPow(x, k - 1))

VAR_DECAY == Frac(995, 1000)
InitialVariance == FracInt(3)

(***************************************************************************)
(* A network parameter is a number c0 + c1 * d + c2 * d^2 + ... with       *)
(* integer coefficients, d being the decay 1.0 - TAU of the moving         *)
(* average: the sequence <<c0, c1, c2, ...>> without trailing zeros.  The  *)
(* moving average only ever multiplies by d and 1 - d, so every value the  *)
(* program computes from integer parameters has this form, and two equal   *)
(* sequences are equal numbers whatever TAU is (0.01 in the program).      *)
(***************************************************************************)
PolyTrim(p) ==
  LET nz == {i \in 1 .. Len(p) : p[i] # 0}
  IN  SubSeq(p, 1, IF nz = {} THEN 0 ELSE CHOOSE m \in nz : \A i \in nz : i <= m)

PolyInt(n) == PolyTrim(<<n>>)

PolyCoef(p, i) == IF i \in 1 .. Len(p) THEN p[i] ELSE 0

PolyLen(p, q) == IF Len(p) >= Len(q) THEN Len(p) ELSE Len(q)

PolyAdd(p, q) == PolyTrim([i \in 1 .. PolyLen(p, q) |-> PolyCoef(p, i) + PolyCoef(q, i)])

PolySub(p, q) == PolyTrim([i \in 1 .. PolyLen(p, q) |-> PolyCoef(p, i) - PolyCoef(q, i)])

RECURSIVE PolyConv(_, _, _, _)
PolyConv(p, q, i, j) ==
  IF j = 0 THEN 0 ELSE PolyCoef(p, j) * PolyCoef(q, i - j + 1) + PolyConv(p, q, i, j - 1)

PolyMul(p, q) ==
  IF p = <<>> \/ q = <<>> THEN <<>>
  ELSE PolyTrim([i \in 1 .. (Len(p) + Len(q) - 1) |-> PolyConv(p, q, i, i)])

RECURSIVE PolyPow(_, _)
PolyPow(p, k) == IF k = 0 THEN PolyInt(1) ELSE PolyMul(p, PolyPow(p, k - 1))

\* TAU, as 1 - d.
TAU == <<1, -1>>

VARIABLES
  \* MemoryBuffer
  capacity, s_dim, state, reward, s_next, pointer,
  \* DDPGModel, and the CallbackFunctor's own counter
  counter, variance, online, target, fcounter,
  \* LOCK (its holder, "free" when released) and the Coordinator's stop flag
  lock, stop,
  \* main thread: position, and the locals of init_buffer
  pcM, m_s, m_it, m_step,
  \* ModelThread.run: position, loop index, and the locals of sample
  pcL, l_it, indices, batch,
  \* BufferThread.run: position, loop index, s, and the result of env.step
  pcP, p_s, p_it, p_step,
  \* history: store_transition calls begun / completed, the transitions
  \* stored (kept for a buffer used on its own), decay events, updates
  \* (in all, and per parameter since its online value last changed),
  \* Producer episodes and the stores of the Producer since its last
\* env.reset, summaries written, and the Producer's env.reset and
  \* store_transition calls after the stop flag was set
  calls, stores, hist, decays, updates, held, episodes, epStores, summaries, afterStop

bufVars == <<capacity, s_dim, state, reward, s_next, pointer>>
modelVars == <<counter, variance, online, target, fcounter>>
mainVars == <<pcM, m_s, m_it, m_step>>
learnerVars == <<pcL, l_it, indices, batch>>
producerVars == <<pcP, p_s, p_it, p_step>>
histVars == <<calls, stores, hist, decays, updates, held, episodes, epStores, summaries, afterStop>>
vars == <<bufVars, modelVars, lock, stop, mainVars, learnerVars, producerVars, histVars>>

(***************************************************************************)
(* MemoryBuffer.  A cell holds the value written (v) and, as history, the  *)
(* number of the store_transition call that wrote it (w; 0: never written, *)
(* the value np.zeros left there).                                         *)
(***************************************************************************)
Cell(v, w) == [v |-> v, w |-> w]
ZeroCell == Cell(0, 0)

Rows(c) == 0 .. (c - 1)
ZeroArray(c) == [i \in Rows(c) |-> ZeroCell]

\* r = (r + 8.0) / 8.0
Rescale(r) == (r + 8) \div 8

\* The locals s_next, r, done before env.step has assigned them.
NoStep == [s_next |-> 0, r |-> 0, done |-> FALSE]

\* np.zeros((capacity, s_dim)) raises ValueError for a negative dimension.
ZerosRaises(c, d) == c < 0 \/ d < 0

\* array[self.pointer, :] = s needs row pointer to exist (IndexError) and
\* the observation to broadcast to a row of s_dim entries (ValueError).
RowAssignable ==
  /\ pointer \in Rows(capacity)
  /\ (s_dim = EnvDim \/ EnvDim = 1)

\* The statements of store_transition; id is the number of the call.
\* self.state[self.pointer, :] = s
WriteState(s, id) ==
  /\ RowAssignable
  /\ state' = [state EXCEPT ![pointer] = Cell(s, id)]
\* self.reward[self.pointer, :] = r
WriteReward(r, id) == reward' = [reward EXCEPT ![pointer] = Cell(r, id)]
\* Variant of WriteSNext: the assignment does not reach the array.
WriteSNextDropped(sn, id) == UNCHANGED s_next

\* self.s_next[self.pointer, :] = s_next
WriteSNext(sn, id) == s_next' = [s_next EXCEPT ![pointer] = Cell(sn, id)]
\* Variants of AdvancePointer: the pointer stays on the last row instead of
\* wrapping; the modulo is left out.
AdvancePointerSaturating ==
  pointer' = IF pointer + 1 < capacity THEN pointer + 1 ELSE pointer
AdvancePointerNoModulo == pointer' = pointer + 1

\* self.pointer = (self.pointer + 1) % self.capacity
AdvancePointer == pointer' = (pointer + 1) % capacity

\* Variant of Acquirable: acquire() does not wait.
AcquirableAlways == TRUE

\* LOCK.acquire() returns only when no thread holds LOCK.
Acquirable == lock = "free"

\* np.random.randint(0, self.capacity, size=[num])
IndexChoices(num) == [1 .. num -> Rows(capacity)]
\* Variant of Gather: every index is taken one row too far.
GatherShifted(array, idx) == [k \in DOMAIN idx |-> array[(idx[k] + 1) % capacity]]

\* array[indices]
Gather(array, idx) == [k \in DOMAIN idx |-> array[idx[k]]]
NoBatch == [s |-> <<>>, r |-> <<>>, s_next |-> <<>>]

(***************************************************************************)
(* DDPGModel.train and DDPGModel.choose_action.                            *)
(***************************************************************************)
\* tf.train.ExponentialMovingAverage(decay = 1.0 - TAU): applying it does
\* shadow -= (1 - decay) * (shadow - variable).
EMADecay == PolySub(PolyInt(1), TAU)
EMA(shadow, variable) ==
  PolySub(shadow, PolyMul(PolySub(PolyInt(1), EMADecay), PolySub(shadow, variable)))

\* target_update: ema.apply(a_vars) and ema.apply(c_vars)
TargetUpdate(tgt, onl) == [a |-> EMA(tgt.a, onl.a), c |-> EMA(tgt.c, onl.c)]

\* One sess.run(c_optim): the control dependency runs target_update first,
\* then Adam moves the critic's variables (var_list = c_vars) by step g.
RunCOptim(po, g) ==
  [online |-> [po.online EXCEPT !.c = PolySub(po.online.c, PolyInt(g))],
   target |-> TargetUpdate(po.target, po.online),
   runs |-> po.runs + 1]

\* for _ in range(C_ITER): self.sess.run(self.c_optim, ...)
RECURSIVE RunCIter(_, _, _)
RunCIter(po, gs, n) ==
  IF n = 0 THEN po ELSE RunCIter(RunCOptim(po, gs[C_ITER - n + 1]), gs, n - 1)

\* model.sess.run(sums, ...): the critic_loss summary is computed from
\* td_error, which was built under tf.control_dependencies(target_update),
\* so evaluating the summaries runs target_update as well.
RunSums(po) ==
  [po EXCEPT !.target = TargetUpdate(po.target, po.online), !.runs = po.runs + 1]

\* self.counter % WRITE_LOGS_EVERY == (WRITE_LOGS_EVERY - 1)
DecayDue(c) == c % WRITE_LOGS_EVERY = WRITE_LOGS_EVERY - 1
\* Variant of Decayed: the decayed value is assigned from the initial variance.
DecayedFromInitial(v) == FracMul(InitialVariance, VAR_DECAY)

\* self.variance *= VAR_DECAY
Decayed(v) == FracMul(v, VAR_DECAY)
\* CallbackFunctor.__call__: self.counter % WRITE_LOGS_EVERY == 5
SummaryDue(c) == c % WRITE_LOGS_EVERY = 5

\* The history kept per parameter: the train calls since its online value
\* last changed, and the gap target - online at the end of the call that
\* changed it.
Held(h, onlBefore, onlAfter, tgtAfter) ==
  IF onlAfter = onlBefore
  THEN [h EXCEPT !.k = h.k + 1]
  ELSE [k |-> 0, gap |-> PolySub(tgtAfter, onlAfter)]

\* model.train(s, r, s_next, callback=self.functor)
Train(steps) ==
  \E gs \in [1 .. C_ITER -> steps] :
    \E opt \in {RunCIter([online |-> online, target |-> target, runs |-> 0], gs, C_ITER)} :
      \E po \in {IF SummaryDue(fcounter) THEN RunSums(opt) ELSE opt} :
        /\ online' = po.online
        /\ target' = po.target
        /\ held' = [p \in {"a", "c"} |-> Held(held[p], online[p], po.online[p], po.target[p])]
        /\ updates' = updates + po.runs
        /\ counter' = counter + 1
        /\ variance' = IF DecayDue(counter + 1) THEN Decayed(variance) ELSE variance
        /\ decays' = IF DecayDue(counter + 1) THEN decays + 1 ELSE decays
        /\ summaries' = IF SummaryDue(fcounter) THEN summaries + 1 ELSE summaries
        /\ fcounter' = fcounter + 1

\* model.choose_action(s): reads the actor and self.variance, changes nothing.
ChooseAction == UNCHANGED modelVars

(***************************************************************************)
(* Main thread: buffer.init_buffer(buffer_thread.env, model), then the     *)
(* two start() calls, coord.join and save.                                 *)
(***************************************************************************)
\* s = env.reset()
MainReset ==
  /\ pcM = "m_reset"
  /\ \E s \in States : m_s' = s
  /\ m_it' = 0
  /\ pcM' = "m_for"
  /\ UNCHANGED <<m_step, bufVars, modelVars, lock, stop, learnerVars, producerVars, histVars>>

\* for it in range(EP_MAXLEN): env.step(agent.choose_action(s)); when the
\* range is exhausted the while True loop starts the next episode.
MainStep ==
  /\ pcM = "m_for"
  /\ \/ /\ m_it < EP_MAXLEN
        /\ ChooseAction
        /\ \E res \in StepResults : m_step' = [res EXCEPT !.r = Rescale(res.r)]
        /\ pcM' = "m_store_state"
        /\ UNCHANGED <<m_s, m_it>>
     \/ /\ m_it >= EP_MAXLEN
        /\ pcM' = "m_reset"
        /\ UNCHANGED <<m_s, m_it, m_step, modelVars>>
  /\ UNCHANGED <<bufVars, lock, stop, learnerVars, producerVars, histVars>>

\* self.store_transition(s, r, s_next), statement by statement
MainStoreState ==
  /\ pcM = "m_store_state"
  /\ WriteState(m_s, calls + 1)
  /\ calls' = calls + 1
  /\ pcM' = "m_store_reward"
  /\ UNCHANGED <<capacity, s_dim, reward, s_next, pointer, m_s, m_it, m_step>>
  /\ UNCHANGED <<stores, hist, decays, updates, held, episodes, epStores, summaries, afterStop>>
  /\ UNCHANGED <<modelVars, lock, stop, learnerVars, producerVars>>

MainStoreReward ==
  /\ pcM = "m_store_reward"
  /\ WriteReward(m_step.r, calls)
  /\ pcM' = "m_store_s_next"
  /\ UNCHANGED <<capacity, s_dim, state, s_next, pointer, m_s, m_it, m_step>>
  /\ UNCHANGED <<modelVars, lock, stop, learnerVars, producerVars, histVars>>

MainStoreSNext ==
  /\ pcM = "m_store_s_next"
  /\ WriteSNext(m_step.s_next, calls)
  /\ pcM' = "m_store_pointer"
  /\ UNCHANGED <<capacity, s_dim, state, reward, pointer, m_s, m_it, m_step>>
  /\ UNCHANGED <<modelVars, lock, stop, learnerVars, producerVars, histVars>>

MainStorePointer ==
  /\ pcM = "m_store_pointer"
  /\ AdvancePointer
  /\ stores' = stores + 1
  /\ pcM' = "m_check"
  /\ UNCHANGED <<capacity, s_dim, state, reward, s_next, m_s, m_it, m_step>>
  /\ UNCHANGED <<calls, hist, decays, updates, held, episodes, epStores, summaries, afterStop>>
  /\ UNCHANGED <<modelVars, lock, stop, learnerVars, producerVars>>

\* Variants of MainCheck: a finished episode (done) also ends init_buffer; the
\* return is taken as soon as the pointer has left row 0.
MainCheckEndsAtDone ==
  /\ pcM = "m_check"
  /\ \/ /\ pointer = 0 \/ m_step.done
        /\ pcM' = "m_start_model"
        /\ m_s' = 0
        /\ m_it' = 0
        /\ m_step' = NoStep
     \/ /\ pointer # 0
        /\ ~m_step.done
        /\ m_it' = m_it + 1
        /\ pcM' = "m_for"
        /\ UNCHANGED <<m_s, m_step>>
  /\ UNCHANGED <<bufVars, modelVars, lock, stop, learnerVars, producerVars, histVars>>

MainCheckReturnsEarly ==
  /\ pcM = "m_check"
  /\ pcM' = "m_start_model"
  /\ m_s' = 0
  /\ m_it' = 0
  /\ m_step' = NoStep
  /\ UNCHANGED <<bufVars, modelVars, lock, stop, learnerVars, producerVars, histVars>>

\* if self.pointer == 0: return (the locals die) / if done: break / next it
MainCheck ==
  /\ pcM = "m_check"
  /\ \/ /\ pointer = 0
        /\ pcM' = "m_start_model"
        /\ m_s' = 0
        /\ m_it' = 0
        /\ m_step' = NoStep
     \/ /\ pointer # 0
        /\ m_step.done
        /\ pcM' = "m_reset"
        /\ UNCHANGED <<m_s, m_it, m_step>>
     \/ /\ pointer # 0
        /\ ~m_step.done
        /\ m_it' = m_it + 1
        /\ pcM' = "m_for"
        /\ UNCHANGED <<m_s, m_step>>
  /\ UNCHANGED <<bufVars, modelVars, lock, stop, learnerVars, producerVars, histVars>>

\* model_thread.start()
MainStartModel ==
  /\ pcM = "m_start_model"
  /\ pcL' = "l_for"
  /\ pcM' = "m_start_buffer"
  /\ UNCHANGED <<m_s, m_it, m_step, l_it, indices, batch>>
  /\ UNCHANGED <<bufVars, modelVars, lock, stop, producerVars, histVars>>

\* buffer_thread.start()
MainStartBuffer ==
  /\ pcM = "m_start_buffer"
  /\ pcP' = "p_while"
  /\ pcM' = "m_join"
  /\ UNCHANGED <<m_s, m_it, m_step, p_s, p_it, p_step>>
  /\ UNCHANGED <<bufVars, modelVars, lock, stop, learnerVars, histVars>>

\* coord.join([model_thread, buffer_thread]) returns once both have exited
MainJoin ==
  /\ pcM = "m_join"
  /\ pcL = "done"
  /\ pcP = "done"
  /\ pcM' = "m_save"
  /\ UNCHANGED <<m_s, m_it, m_step>>
  /\ UNCHANGED <<bufVars, modelVars, lock, stop, learnerVars, producerVars, histVars>>

\* save(model.sess, MODEL_DIR, model.name, global_step=model.counter)
MainSave ==
  /\ pcM = "m_save"
  /\ pcM' = "done"
  /\ UNCHANGED <<m_s, m_it, m_step>>
  /\ UNCHANGED <<bufVars, modelVars, lock, stop, learnerVars, producerVars, histVars>>

(***************************************************************************)
(* ModelThread.run (the Learner).                                          *)
(***************************************************************************)
\* Variant of LearnerFor: the loop is left one iteration early.
LearnerForOneShort ==
  /\ pcL = "l_for"
  /\ \/ /\ l_it + 1 < N_ITERS
        /\ pcL' = "l_acquire"
     \/ /\ l_it + 1 >= N_ITERS
        /\ pcL' = "l_stop"
  /\ UNCHANGED <<l_it, indices, batch>>
  /\ UNCHANGED <<bufVars, modelVars, lock, stop, mainVars, producerVars, histVars>>

\* for it in range(N_ITERS)
LearnerFor ==
  /\ pcL = "l_for"
  /\ \/ /\ l_it < N_ITERS
        /\ pcL' = "l_acquire"
     \/ /\ l_it >= N_ITERS
        /\ pcL' = "l_stop"
  /\ UNCHANGED <<l_it, indices, batch>>
  /\ UNCHANGED <<bufVars, modelVars, lock, stop, mainVars, producerVars, histVars>>

\* LOCK.acquire()
LearnerAcquire ==
  /\ pcL = "l_acquire"
  /\ Acquirable
  /\ lock' = "learner"
  /\ pcL' = "l_indices"
  /\ UNCHANGED <<l_it, indices, batch>>
  /\ UNCHANGED <<bufVars, modelVars, stop, mainVars, producerVars, histVars>>

\* buffer.sample(BATCH_SIZE): indices = np.random.randint(0, self.capacity, size=[num])
LearnerIndices ==
  /\ pcL = "l_indices"
  /\ indices' \in IndexChoices(BATCH_SIZE)
  /\ pcL' = "l_read_state"
  /\ UNCHANGED <<l_it, batch>>
  /\ UNCHANGED <<bufVars, modelVars, lock, stop, mainVars, producerVars, histVars>>

\* self.state[indices]
LearnerReadState ==
  /\ pcL = "l_read_state"
  /\ batch' = [batch EXCEPT !.s = Gather(state, indices)]
  /\ pcL' = "l_read_reward"
  /\ UNCHANGED <<l_it, indices>>
  /\ UNCHANGED <<bufVars, modelVars, lock, stop, mainVars, producerVars, histVars>>

\* self.reward[indices]
LearnerReadReward ==
  /\ pcL = "l_read_reward"
  /\ batch' = [batch EXCEPT !.r = Gather(reward, indices)]
  /\ pcL' = "l_read_s_next"
  /\ UNCHANGED <<l_it, indices>>
  /\ UNCHANGED <<bufVars, modelVars, lock, stop, mainVars, producerVars, histVars>>

\* self.s_next[indices], and the return to run
LearnerReadSNext ==
  /\ pcL = "l_read_s_next"
  /\ batch' = [batch EXCEPT !.s_next = Gather(s_next, indices)]
  /\ pcL' = "l_release"
  /\ UNCHANGED <<l_it, indices>>
  /\ UNCHANGED <<bufVars, modelVars, lock, stop, mainVars, producerVars, histVars>>

\* Variant of LearnerRelease: train is entered with LOCK still held.
LearnerKeepsLock ==
  /\ pcL = "l_release"
  /\ pcL' = "l_train"
  /\ UNCHANGED <<l_it, indices, batch>>
  /\ UNCHANGED <<bufVars, modelVars, lock, stop, mainVars, producerVars, histVars>>

\* LOCK.release()
LearnerRelease ==
  /\ pcL = "l_release"
  /\ lock' = "free"
  /\ pcL' = "l_train"
  /\ UNCHANGED <<l_it, indices, batch>>
  /\ UNCHANGED <<bufVars, modelVars, stop, mainVars, producerVars, histVars>>

\* model.train(s, r, s_next, callback=self.functor); the batch and the
\* indices it was drawn at are not read again before the next sample
LearnerTrain ==
  /\ pcL = "l_train"
  /\ Train(GradSteps)
  /\ l_it' = l_it + 1
  /\ batch' = NoBatch
  /\ indices' = <<>>
  /\ pcL' = "l_for"
  /\ UNCHANGED <<calls, stores, hist, episodes, epStores, afterStop>>
  /\ UNCHANGED <<bufVars, lock, stop, mainVars, producerVars>>

\* coord.request_stop(), and the thread's exit
LearnerStop ==
  /\ pcL = "l_stop"
  /\ stop' = TRUE
  /\ pcL' = "done"
  /\ UNCHANGED <<l_it, indices, batch>>
  /\ UNCHANGED <<bufVars, modelVars, lock, mainVars, producerVars, histVars>>

(***************************************************************************)
(* BufferThread.run (the Producer).                                        *)
(***************************************************************************)
\* Variant of ProducerWhile: the flag is read only once the episodes are used up.
ProducerWhileUnchecked ==
  /\ pcP = "p_while"
  /\ \/ /\ stop
        /\ episodes >= MaxEpisodes
        /\ pcP' = "done"
        /\ UNCHANGED episodes
     \/ /\ episodes < MaxEpisodes
        /\ episodes' = episodes + 1
        /\ pcP' = "p_reset"
  /\ UNCHANGED <<p_s, p_it, p_step>>
  /\ UNCHANGED <<calls, stores, hist, decays, updates, held, epStores, summaries, afterStop>>
  /\ UNCHANGED <<bufVars, modelVars, lock, stop, mainVars, learnerVars>>

\* while not coord.should_stop()
ProducerWhile ==
  /\ pcP = "p_while"
  /\ \/ /\ stop
        /\ pcP' = "done"
        /\ UNCHANGED episodes
     \/ /\ ~stop
        /\ episodes < MaxEpisodes
        /\ episodes' = episodes + 1
        /\ pcP' = "p_reset"
  /\ UNCHANGED <<p_s, p_it, p_step>>
  /\ UNCHANGED <<calls, stores, hist, decays, updates, held, epStores, summaries, afterStop>>
  /\ UNCHANGED <<bufVars, modelVars, lock, stop, mainVars, learnerVars>>

\* s = self.env.reset()
ProducerReset ==
  /\ pcP = "p_reset"
  /\ \E s \in States : p_s' = s
  /\ p_it' = 0
  /\ afterStop' = IF stop THEN [afterStop EXCEPT !.resets = @ + 1] ELSE afterStop
  /\ epStores' = 0
  /\ pcP' = "p_for"
  /\ UNCHANGED p_step
  /\ UNCHANGED <<calls, stores, hist, decays, updates, held, episodes, summaries>>
  /\ UNCHANGED <<bufVars, modelVars, lock, stop, mainVars, learnerVars>>

\* Variant of ProducerFor: the range holds one step more.
ProducerForOneMore ==
  /\ pcP = "p_for"
  /\ \/ /\ p_it <= EP_MAXLEN
        /\ pcP' = "p_step"
     \/ /\ p_it > EP_MAXLEN
        /\ pcP' = "p_while"
  /\ UNCHANGED <<p_s, p_it, p_step>>
  /\ UNCHANGED <<bufVars, modelVars, lock, stop, mainVars, learnerVars, histVars>>

\* for it in range(EP_MAXLEN)
ProducerFor ==
  /\ pcP = "p_for"
  /\ \/ /\ p_it < EP_MAXLEN
        /\ pcP' = "p_step"
     \/ /\ p_it >= EP_MAXLEN
        /\ pcP' = "p_while"
  /\ UNCHANGED <<p_s, p_it, p_step>>
  /\ UNCHANGED <<bufVars, modelVars, lock, stop, mainVars, learnerVars, histVars>>

\* if self.render: self.env.render()     (RENDER = True)
\* s_next, r, done, info = self.env.step(model.choose_action(s))
\* r = (r + 8.0) / 8.0
ProducerStep ==
  /\ pcP = "p_step"
  /\ ChooseAction
  /\ \E res \in StepResults : p_step' = [res EXCEPT !.r = Rescale(res.r)]
  /\ pcP' = "p_acquire"
  /\ UNCHANGED <<p_s, p_it>>
  /\ UNCHANGED <<bufVars, lock, stop, mainVars, learnerVars, histVars>>

\* Variant of ProducerAcquire: store_transition is entered without LOCK.
ProducerAcquireSkipped ==
  /\ pcP = "p_acquire"
  /\ pcP' = "p_store_state"
  /\ UNCHANGED <<p_s, p_it, p_step>>
  /\ UNCHANGED <<bufVars, modelVars, lock, stop, mainVars, learnerVars, histVars>>

\* Variant of ProducerAcquire: the store also waits until the Learner has
\* taken a sample of the rows written so far.
ProducerAcquireAfterSample ==
  /\ pcP = "p_acquire"
  /\ Acquirable
  /\ pcL \in {"l_train", "l_stop", "done"}
  /\ lock' = "producer"
  /\ pcP' = "p_store_state"
  /\ UNCHANGED <<p_s, p_it, p_step>>
  /\ UNCHANGED <<bufVars, modelVars, stop, mainVars, learnerVars, histVars>>

\* LOCK.acquire()
ProducerAcquire ==
  /\ pcP = "p_acquire"
  /\ Acquirable
  /\ lock' = "producer"
  /\ pcP' = "p_store_state"
  /\ UNCHANGED <<p_s, p_it, p_step>>
  /\ UNCHANGED <<bufVars, modelVars, stop, mainVars, learnerVars, histVars>>

\* buffer.store_transition(s, r, s_next), statement by statement
ProducerStoreState ==
  /\ pcP = "p_store_state"
  /\ WriteState(p_s, calls + 1)
  /\ calls' = calls + 1
  /\ pcP' = "p_store_reward"
  /\ UNCHANGED <<capacity, s_dim, reward, s_next, pointer, p_s, p_it, p_step>>
  /\ UNCHANGED <<stores, hist, decays, updates, held, episodes, epStores, summaries, afterStop>>
  /\ UNCHANGED <<modelVars, lock, stop, mainVars, learnerVars>>

ProducerStoreReward ==
  /\ pcP = "p_store_reward"
  /\ WriteReward(p_step.r, calls)
  /\ pcP' = "p_store_s_next"
  /\ UNCHANGED <<capacity, s_dim, state, s_next, pointer, p_s, p_it, p_step>>
  /\ UNCHANGED <<modelVars, lock, stop, mainVars, learnerVars, histVars>>

ProducerStoreSNext ==
  /\ pcP = "p_store_s_next"
  /\ WriteSNext(p_step.s_next, calls)
  /\ pcP' = "p_store_pointer"
  /\ UNCHANGED <<capacity, s_dim, state, reward, pointer, p_s, p_it, p_step>>
  /\ UNCHANGED <<modelVars, lock, stop, mainVars, learnerVars, histVars>>

ProducerStorePointer ==
  /\ pcP = "p_store_pointer"
  /\ AdvancePointer
  /\ stores' = stores + 1
  /\ afterStop' = IF stop THEN [afterStop EXCEPT !.stores = @ + 1] ELSE afterStop
  /\ epStores' = epStores + 1
  /\ pcP' = "p_release"
  /\ UNCHANGED <<capacity, s_dim, state, reward, s_next, p_s, p_it, p_step>>
  /\ UNCHANGED <<calls, hist, decays, updates, held, episodes, summaries>>
  /\ UNCHANGED <<modelVars, lock, stop, mainVars, learnerVars>>

\* LOCK.release()
ProducerRelease ==
  /\ pcP = "p_release"
  /\ lock' = "free"
  /\ pcP' = "p_next"
  /\ UNCHANGED <<p_s, p_it, p_step>>
  /\ UNCHANGED <<bufVars, modelVars, stop, mainVars, learnerVars, histVars>>

\* s = s_next; if done: break; the step's results are not read again
ProducerNext ==
  /\ pcP = "p_next"
  /\ p_s' = p_step.s_next
  /\ p_step' = NoStep
  /\ \/ /\ p_step.done
        /\ pcP' = "p_while"
        /\ UNCHANGED p_it
     \/ /\ ~p_step.done
        /\ p_it' = p_it + 1
        /\ pcP' = "p_for"
  /\ UNCHANGED <<bufVars, modelVars, lock, stop, mainVars, learnerVars, histVars>>

(***************************************************************************)
(* The program: the state after the constructors and load(), and its steps *)
(***************************************************************************)
FreshHeld(onl, tgt) ==
  [a |-> [k |-> 0, gap |-> PolySub(tgt.a, onl.a)],
   c |-> [k |-> 0, gap |-> PolySub(tgt.c, onl.c)]]

Params == [a : {PolyInt(p) : p \in ParamValues}, c : {PolyInt(p) : p \in ParamValues}]

\* MemoryBuffer.__init__(capacity, s_dim)
BufferInit(c) ==
  /\ capacity = c
  /\ s_dim = S_DIM
  /\ state = ZeroArray(c)
  /\ reward = ZeroArray(c)
  /\ s_next = ZeroArray(c)
  /\ pointer = 0

\* DDPGModel.__init__, then _, model.counter = load(...): the variables hold
\* the values restored (onl, tgt) and the counter the restored step c.
ModelInit(c, onl, tgt) ==
  /\ counter = c
  /\ variance = InitialVariance
  /\ online = onl
  /\ target = tgt
  /\ fcounter = 0
  /\ held = FreshHeld(onl, tgt)

ThreadsInit ==
  /\ lock = "free"
  /\ stop = FALSE
  /\ pcL = "idle" /\ l_it = 0 /\ indices = <<>> /\ batch = NoBatch
  /\ pcP = "idle" /\ p_s = 0 /\ p_it = 0 /\ p_step = NoStep
  /\ m_s = 0 /\ m_it = 0 /\ m_step = NoStep

HistInit ==
  /\ calls = 0 /\ stores = 0 /\ hist = <<>> /\ decays = 0 /\ updates = 0
  /\ episodes = 0 /\ epStores = 0 /\ summaries = 0
  /\ afterStop = [resets |-> 0, stores |-> 0]

Init ==
  /\ BufferInit(CAPACITY)
  /\ \E c \in {0} :
       ModelInit(c, [a |-> PolyInt(0), c |-> PolyInt(0)], [a |-> PolyInt(0), c |-> PolyInt(0)])
  /\ ThreadsInit
  /\ HistInit
  /\ pcM = "m_reset"

Next ==
  \/ MainReset \/ MainStep \/ MainStoreState \/ MainStoreReward \/ MainStoreSNext
  \/ MainStorePointer \/ MainCheck \/ MainStartModel \/ MainStartBuffer
  \/ MainJoin \/ MainSave
  \/ LearnerFor \/ LearnerAcquire \/ LearnerIndices \/ LearnerReadState
  \/ LearnerReadReward \/ LearnerReadSNext \/ LearnerRelease \/ LearnerTrain
  \/ LearnerStop
  \/ ProducerWhile \/ ProducerReset \/ ProducerFor \/ ProducerStep
  \/ ProducerAcquire \/ ProducerStoreState
  \/ ProducerStoreReward \/ ProducerStoreSNext \/ ProducerStorePointer
  \/ ProducerRelease \/ ProducerNext

Spec == Init /\ [][Next]_vars

(***************************************************************************)
(* Scheduling.  Each thread that can take a step eventually takes one; a   *)
(* thread waiting in LOCK.acquire() gets the lock if it is free again and  *)
(* again.                                                                  *)
(***************************************************************************)
MainSteps ==
  \/ MainReset \/ MainStep \/ MainStoreState \/ MainStoreReward \/ MainStoreSNext
  \/ MainStorePointer \/ MainCheck \/ MainStartModel \/ MainStartBuffer
  \/ MainJoin \/ MainSave

LearnerSteps ==
  \/ LearnerFor \/ LearnerIndices \/ LearnerReadState \/ LearnerReadReward
  \/ LearnerReadSNext \/ LearnerRelease \/ LearnerTrain \/ LearnerStop

ProducerSteps ==
  \/ ProducerWhile \/ ProducerReset \/ ProducerFor \/ ProducerStep
  \/ ProducerStoreState \/ ProducerStoreReward \/ ProducerStoreSNext
  \/ ProducerStorePointer \/ ProducerRelease \/ ProducerNext

Fairness ==
  /\ WF_vars(MainSteps)
  /\ WF_vars(LearnerSteps)
  /\ WF_vars(ProducerSteps)
  /\ SF_vars(LearnerAcquire)
  /\ SF_vars(ProducerAcquire)

SpecFair == Spec /\ Fairness

\* coord.join([model_thread, buffer_thread]) with its default
\* stop_grace_period_secs = 120: once stop has been requested, join waits that
\* long for the threads still alive and then raises RuntimeError in the main
\* thread, which ends without save while the straggler runs on.
MainJoinRaises ==
  /\ pcM = "m_join"
  /\ stop
  /\ pcL # "done" \/ pcP # "done"
  /\ pcM' = "raised"
  /\ UNCHANGED <<m_s, m_it, m_step>>
  /\ UNCHANGED <<bufVars, modelVars, lock, stop, learnerVars, producerVars, histVars>>

NextShutdown == Next \/ MainJoinRaises

SpecShutdown == Init /\ [][NextShutdown]_vars /\ Fairness

(***************************************************************************)
(* The program with an environment whose reset or step can raise inside    *)
(* BufferThread.run: run has no try, so the exception ends the thread.     *)
(***************************************************************************)
\* s = self.env.reset() raises
ProducerResetRaises ==
  /\ pcP = "p_reset"
  /\ pcP' = "raised"
  /\ UNCHANGED <<p_s, p_it, p_step>>
  /\ UNCHANGED <<bufVars, modelVars, lock, stop, mainVars, learnerVars, histVars>>

\* Variant of ProducerStepRaises: env.step is called, and raises, inside the
\* locked region.
ProducerStepRaisesLocked ==
  /\ pcP = "p_store_state"
  /\ pcP' = "raised"
  /\ UNCHANGED <<p_s, p_it, p_step>>
  /\ UNCHANGED <<bufVars, modelVars, lock, stop, mainVars, learnerVars, histVars>>

\* self.env.step(model.choose_action(s)) raises
ProducerStepRaises ==
  /\ pcP = "p_step"
  /\ pcP' = "raised"
  /\ UNCHANGED <<p_s, p_it, p_step>>
  /\ UNCHANGED <<bufVars, modelVars, lock, stop, mainVars, learnerVars, histVars>>

\* coord.join returns once neither thread is alive, however the Producer ended
MainJoinEnded ==
  /\ pcM = "m_join"
  /\ pcL = "done"
  /\ pcP = "raised"
  /\ pcM' = "m_save"
  /\ UNCHANGED <<m_s, m_it, m_step>>
  /\ UNCHANGED <<bufVars, modelVars, lock, stop, learnerVars, producerVars, histVars>>

NextEnvError == Next \/ ProducerResetRaises \/ ProducerStepRaises \/ MainJoinEnded

\* The Learner, whenever it can take a step, eventually takes one.
LearnerRuns == WF_vars(LearnerSteps \/ LearnerAcquire)

SpecEnvError == Init /\ [][NextEnvError]_vars /\ LearnerRuns

(***************************************************************************)
(* The program run with any capacity and state dimension given to          *)
(* MemoryBuffer(capacity, s_dim): the constructor as a step of the main    *)
(* thread, and the exceptions np.zeros and the first row write can raise.  *)
(***************************************************************************)
\* The arguments tried: a negative, a zero and the program's capacity; a
\* state dimension one short of the environment's, and the program's.
ConfigCapacities == {-1, 0, CAPACITY}
ConfigDims == {S_DIM - 1, S_DIM}

\* buffer = MemoryBuffer(capacity, s_dim): no argument is checked.
MainConstruct ==
  /\ pcM = "m_construct"
  /\ ~ZerosRaises(capacity, s_dim)
  /\ state' = ZeroArray(capacity)
  /\ reward' = ZeroArray(capacity)
  /\ s_next' = ZeroArray(capacity)
  /\ pointer' = 0
  /\ pcM' = "m_reset"
  /\ UNCHANGED <<capacity, s_dim, m_s, m_it, m_step>>
  /\ UNCHANGED <<modelVars, lock, stop, learnerVars, producerVars, histVars>>

\* np.zeros raises inside __init__: the main thread ends there.
MainConstructRaises ==
  /\ pcM = "m_construct"
  /\ ZerosRaises(capacity, s_dim)
  /\ pcM' = "raised"
  /\ UNCHANGED <<m_s, m_it, m_step>>
  /\ UNCHANGED <<bufVars, modelVars, lock, stop, learnerVars, producerVars, histVars>>

\* store_transition called by init_buffer raises at its first statement.
MainStoreRaises ==
  /\ pcM = "m_store_state"
  /\ ~RowAssignable
  /\ calls' = calls + 1
  /\ pcM' = "raised"
  /\ UNCHANGED <<m_s, m_it, m_step>>
  /\ UNCHANGED <<stores, hist, decays, updates, held, episodes, epStores, summaries, afterStop>>
  /\ UNCHANGED <<bufVars, modelVars, lock, stop, learnerVars, producerVars>>

InitConfig ==
  /\ capacity \in ConfigCapacities
  /\ s_dim \in ConfigDims
  /\ state = ZeroArray(0)
  /\ reward = ZeroArray(0)
  /\ s_next = ZeroArray(0)
  /\ pointer = 0
  /\ ModelInit(0, [a |-> PolyInt(0), c |-> PolyInt(0)], [a |-> PolyInt(0), c |-> PolyInt(0)])
  /\ ThreadsInit
  /\ HistInit
  /\ pcM = "m_construct"

NextConfig == MainConstruct \/ MainConstructRaises \/ MainStoreRaises \/ Next

SpecConfig == InitConfig /\ [][NextConfig]_vars

(***************************************************************************)
(* A MemoryBuffer on its own: constructed with any capacity, then          *)
(* store_transition and sample called one after the other by one caller.   *)
(***************************************************************************)
\* The transitions call number j may store.
CallInputs(j) ==
  { [s |-> j, r |-> 1, s_next |-> j + 1],
    [s |-> 2, r |-> -1, s_next |-> 2] }

\* buffer.store_transition(s, r, s_next)
StoreTransition(tr) ==
  /\ WriteState(tr.s, calls + 1)
  /\ WriteReward(tr.r, calls + 1)
  /\ WriteSNext(tr.s_next, calls + 1)
  /\ AdvancePointer
  /\ UNCHANGED <<capacity, s_dim>>

\* s, r, s_next = buffer.sample(num)
Sample(num) ==
  \E idx \in IndexChoices(num) :
    /\ indices' = idx
    /\ batch' = [s |-> Gather(state, idx), r |-> Gather(reward, idx),
                 s_next |-> Gather(s_next, idx)]

CallStore ==
  /\ pcM \in {"constructed", "stored", "sampled"}
  /\ calls < MaxCalls
  /\ \E tr \in CallInputs(calls + 1) :
       /\ StoreTransition(tr)
       /\ hist' = Append(hist, tr)
  /\ calls' = calls + 1
  /\ stores' = stores + 1
  /\ pcM' = "stored"
  /\ indices' = <<>>
  /\ batch' = NoBatch
  /\ l_it' = 0
  /\ UNCHANGED <<m_s, m_it, m_step, pcL>>
  /\ UNCHANGED <<decays, updates, held, episodes, epStores, summaries, afterStop>>
  /\ UNCHANGED <<modelVars, lock, stop, producerVars>>

\* l_it holds the size asked for.
CallSample ==
  /\ pcM \in {"constructed", "stored", "sampled"}
  /\ \E num \in 0 .. MaxNum :
       /\ Sample(num)
       /\ l_it' = num
  /\ pcM' = "sampled"
  /\ UNCHANGED <<m_s, m_it, m_step, pcL>>
  /\ UNCHANGED <<bufVars, modelVars, lock, stop, producerVars, histVars>>

InitBuffer ==
  /\ \E c \in 1 .. MaxCapacity : BufferInit(c)
  /\ ModelInit(0, [a |-> PolyInt(0), c |-> PolyInt(0)], [a |-> PolyInt(0), c |-> PolyInt(0)])
  /\ ThreadsInit
  /\ HistInit
  /\ pcM = "constructed"

NextBuffer == CallStore \/ CallSample

SpecBuffer == InitBuffer /\ [][NextBuffer]_vars

(***************************************************************************)
(* A DDPGModel on its own: constructed, any checkpoint restored, then      *)
(* train and choose_action called one after the other by one caller.       *)
(***************************************************************************)
CallTrain ==
  /\ pcM = "constructed"
  /\ fcounter < MaxTrainCalls
  /\ Train(AnyGradSteps)
  /\ UNCHANGED <<calls, stores, hist, episodes, epStores, afterStop>>
  /\ UNCHANGED <<bufVars, lock, stop, mainVars, learnerVars, producerVars>>

\* p_it counts the calls.
CallChoose ==
  /\ pcM = "constructed"
  /\ p_it < MaxChooseCalls
  /\ ChooseAction
  /\ p_it' = p_it + 1
  /\ UNCHANGED <<pcP, p_s, p_step>>
  /\ UNCHANGED <<bufVars, lock, stop, mainVars, learnerVars, histVars>>

InitTrain ==
  /\ BufferInit(CAPACITY)
  /\ \E c \in 0 .. MaxLoadedCounter : \E onl \in Params : \E tgt \in Params :
       ModelInit(c, onl, tgt)
  /\ ThreadsInit
  /\ HistInit
  /\ pcM = "constructed"

NextTrain == CallTrain \/ CallChoose

SpecTrain == InitTrain /\ [][NextTrain]_vars

(***************************************************************************)
(* Properties.                                                             *)
(***************************************************************************)
Min(a, b) == IF a <= b THEN a ELSE b

\* The last of the first n calls (numbered from 1) that wrote row i.
LastCall(i, n, c) ==
  CHOOSE j \in 1 .. n :
    /\ (j - 1) % c = i
    /\ \A j2 \in 1 .. n : (j2 - 1) % c = i => j2 <= j

\* C1 (SpecBuffer).  Circular overwrite: after N store_transition calls on a
\* freshly constructed buffer of any capacity C >= 1, pointer = N mod C and
\* every row i < min(N, C) holds the state, reward and s_next of the last
\* call that wrote index i.
C1_CircularOverwrite ==
  LET n == Len(hist)
  IN  /\ stores = n
      /\ pointer = n % capacity
      /\ \A i \in Rows(capacity) :
           i < Min(n, capacity) =>
             LET tr == hist[LastCall(i, n, capacity)]
             IN  /\ state[i].v = tr.s
                 /\ reward[i].v = tr.r
                 /\ s_next[i].v = tr.s_next

\* The scenario of the specification: C = 4 and states 1, 2, 3, 4, 5 stored in
\* order leave rows 5, 2, 3, 4 and pointer = 1.
C1_Witness ==
  /\ capacity = 4
  /\ Len(hist) = 5
  /\ [k \in 1 .. 5 |-> hist[k].s] = <<1, 2, 3, 4, 5>>
  /\ [i \in 1 .. 4 |-> state[i - 1].v] = <<5, 2, 3, 4>>
  /\ pointer = 1

\* C2 (Spec).  No torn rows: every row a Learner sample has returned has its
\* state, reward and s_next written by one and the same store_transition
\* call (or all three never written), in every interleaving of the threads.
C2_NoTornRows ==
  pcL \in {"l_release", "l_train"} =>
    \A k \in 1 .. BATCH_SIZE :
      /\ batch.s[k].w = batch.r[k].w
      /\ batch.r[k].w = batch.s_next[k].w

\* The Learner holds a row the Producer stored after the prefill while the
\* Producer waits for LOCK to store its next transition.
C2_Witness ==
  /\ pcL = "l_release"
  /\ pcP = "p_acquire"
  /\ batch.s[1].w > capacity

\* C3 (SpecBuffer).  Sample bounds: sample(n) returns exactly n rows in each
\* of the three arrays, gathered from the same n indices, each in 0..C-1,
\* whatever was written so far and wherever the pointer is.
C3_SampleBounds ==
  pcM = "sampled" =>
    /\ Len(indices) = l_it
    /\ Len(batch.s) = l_it
    /\ Len(batch.r) = l_it
    /\ Len(batch.s_next) = l_it
    /\ \A k \in 1 .. l_it :
         /\ indices[k] \in Rows(capacity)
         /\ batch.s[k] = state[indices[k]]
         /\ batch.r[k] = reward[indices[k]]
         /\ batch.s_next[k] = s_next[indices[k]]

\* A sample of two rows that drew the same index twice, a written row, from
\* a buffer that still has a never-written row.
C3_Witness ==
  /\ pcM = "sampled"
  /\ l_it = 2
  /\ indices[1] = indices[2]
  /\ batch.s[1].w > 0
  /\ \E i \in Rows(capacity) : state[i].w = 0

SamplePcs == {"l_indices", "l_read_state", "l_read_reward", "l_read_s_next", "l_release"}
ProducerStorePcs ==
  {"p_store_state", "p_store_reward", "p_store_s_next", "p_store_pointer", "p_release"}
MainStorePcs == {"m_store_state", "m_store_reward", "m_store_s_next", "m_store_pointer"}
PrefillPcs == {"m_reset", "m_for", "m_check"} \cup MainStorePcs

\* C4 (Spec).  Lock scope: the Learner holds LOCK exactly from acquire to
\* release around buffer.sample, the Producer exactly around
\* buffer.store_transition; LOCK is never held by a thread that is in train,
\* choose_action, env.step, env.reset or env.render.
C4_LockScope ==
  /\ lock \in {"free", "learner", "producer"}
  /\ lock = "learner" <=> pcL \in SamplePcs
  /\ lock = "producer" <=> pcP \in ProducerStorePcs
  /\ pcL = "l_train" => lock # "learner"
  /\ pcP \in {"p_while", "p_reset", "p_for", "p_step", "p_acquire", "p_next"} => lock # "producer"

\* The Learner is in train and the Producer in choose_action / env.step at
\* the same time, LOCK free.
C4_Witness ==
  /\ pcL = "l_train"
  /\ pcP = "p_step"
  /\ lock = "free"

\* C5 (Spec).  Bounded exit after stop: once the stop flag is set the Learner
\* makes no further sample or train call (it has left its loop), the
\* Producer makes at most one more env.reset and at most EP_MAXLEN more
\* store_transition calls, and having read the flag as set it has exited
\* and stays so.
C5_BoundedExit ==
  /\ [](/\ stop => pcL = "done"
        /\ afterStop.resets <= 1
        /\ afterStop.stores <= EP_MAXLEN
        /\ pcP = "done" => stop)
  /\ [][pcP = "done" => pcP' = "done"]_vars

\* The flag was set after the Producer had read it as clear: the Producer
\* has run one whole episode since, and exits.
C5_Witness ==
  /\ stop
  /\ afterStop.resets = 1
  /\ afterStop.stores = EP_MAXLEN
  /\ pcP = "done"

BufferChanged ==
  state' # state \/ reward' # reward \/ s_next' # s_next \/ pointer' # pointer
StoreStep ==
  \/ pcM \in MainStorePcs /\ pcM' # pcM
  \/ pcP \in ProducerStorePcs /\ pcP' # pcP

\* C6 (Spec).  Pointer invariant: 0 <= pointer < C in every state; a
\* completed store_transition advances pointer by exactly 1 modulo C;
\* nothing but the statements of store_transition changes pointer or a
\* row, and they change no row other than row pointer.
C6_PointerInvariant ==
  /\ [](pointer \in Rows(capacity))
  /\ [][/\ stores' = stores + 1 => pointer' = (pointer + 1) % capacity
        /\ stores' = stores => pointer' = pointer
        /\ BufferChanged => StoreStep
        /\ \A i \in Rows(capacity) :
             i # pointer =>
               state'[i] = state[i] /\ reward'[i] = reward[i] /\ s_next'[i] = s_next[i]]_vars

\* The Producer has wrapped the buffer a second time while the Learner trains.
C6_Witness ==
  /\ stores = 2 * capacity
  /\ pointer = 0
  /\ pcL = "l_train"

C8_NoUnwrittenRead ==
  /\ pcL \in SamplePcs =>
       \A i \in Rows(capacity) : state[i].w > 0 /\ reward[i].w > 0 /\ s_next[i].w > 0
  /\ \A k \in DOMAIN batch.s : batch.s[k].w > 0
  /\ \A k \in DOMAIN batch.r : batch.r[k].w > 0
  /\ \A k \in DOMAIN batch.s_next : batch.s_next[k].w > 0

\* The Learner's first sample has returned before the Producer stored anything.
C8_Witness ==
  /\ pcL = "l_release"
  /\ l_it = 0
  /\ stores = capacity
  /\ batch.s[1].w > 0

\* C8 read as a hazard of the running program needs a state in which a
\* never-written row is there to be drawn by a Learner sample.  Rows once written stay written, so in any
\* run such a row is there for some sample only if it is there for the
\* first: stated for the first sample.
C8_Original ==
  pcL = "l_indices" /\ l_it = 0 =>
    \E i \in Rows(capacity) : state[i].w = 0 \/ reward[i].w = 0 \/ s_next[i].w = 0

\* C9 (SpecTrain).  Exploration decay: after m decay events the variance is
\* 3.0 * VAR_DECAY^m; it never increases, and changes only in a train call
\* whose new counter value is due for a decay.
C9_ExplorationDecay ==
  /\ [](variance = FracMul(InitialVariance, FracPow(VAR_DECAY, decays)))
  /\ [][/\ FracLeq(variance', variance)
        /\ variance' # variance =>
             counter' = counter + 1 /\ DecayDue(counter') /\ decays' = decays + 1]_vars

\* Two decay events: 3 * 0.995^2 = 2.970075 = 118803 / 40000.
C9_Witness ==
  /\ decays = 2
  /\ variance = [num |-> 118803, den |-> 40000]

ParamNames == {"a", "c"}

\* C10 (SpecTrain).  Target smoothing: every train call applies
\* target' = (1 - TAU) * target + TAU * online exactly once to the actor and
\* to the critic parameter; hence, while an online value is held fixed, the
\* gap target - online after k train calls is (1 - TAU)^k times the gap it
\* had (which, as 0 < 1 - TAU < 1, has the same sign and is no larger).
C10_TargetSmoothing ==
  /\ [](\A p \in ParamNames :
          PolySub(target[p], online[p])
            = PolyMul(PolyPow(PolySub(PolyInt(1), TAU), held[p].k), held[p].gap))
  /\ [][counter' = counter + 1 =>
          /\ updates' = updates + 1
          /\ \A p \in ParamNames :
               target'[p] = PolyAdd(PolyMul(PolySub(PolyInt(1), TAU), target[p]),
                                    PolyMul(TAU, online[p]))]_vars

\* C11 (SpecConfig).  Configuration errors fail fast: with a capacity that
\* is not positive, or a state dimension other than the environment's, the
\* main thread never gets past the constructor (it is about to run it, or
\* the constructor has raised), no store_transition is ever begun and no
\* thread is started.
C11_ConfigFailFast ==
  (capacity <= 0 \/ s_dim # EnvDim) =>
    /\ pcM \in {"m_construct", "raised"}
    /\ calls = 0
    /\ pcL = "idle" /\ pcP = "idle"

LearnerLoopPcs == {"l_for", "l_acquire", "l_release", "l_train"} \cup SamplePcs

\* C12 (Spec).  Learner budget and stop signal: the Learner makes exactly
\* N_ITERS iterations, each one sample of BATCH_SIZE rows followed by one
\* train call that adds exactly 1 to the step counter, whatever the buffer
\* holds and wherever the Producer is; the stop flag is set only by the
\* Learner, after its N_ITERS-th train has returned, and stays set.
C12_LearnerBudget ==
  /\ [](/\ pcL \in LearnerLoopPcs => l_it = fcounter /\ counter = fcounter
        /\ pcL \in LearnerLoopPcs \ {"l_for"} => l_it < N_ITERS
        /\ pcL \in {"l_stop", "done"} => fcounter = N_ITERS /\ counter = N_ITERS
        /\ pcL \in {"l_release", "l_train"} =>
             Len(batch.s) = BATCH_SIZE /\ Len(batch.r) = BATCH_SIZE
             /\ Len(batch.s_next) = BATCH_SIZE
        /\ stop <=> pcL = "done")
  /\ [][/\ counter' # counter =>
             pcL = "l_train" /\ pcL' = "l_for" /\ counter' = counter + 1
        /\ pcL' = "l_train" /\ pcL # "l_train" => pcL = "l_release"
        /\ pcL = "l_train" /\ pcL' # "l_train" => fcounter' = fcounter + 1
        /\ stop' # stop => pcL = "l_stop" /\ pcL' = "done" /\ pcP' = pcP
        /\ stop => stop']_vars

\* The Learner has made all its iterations and set the flag while the
\* Producer has not completed a single store of its own.
C12_Witness ==
  /\ stop
  /\ fcounter = N_ITERS
  /\ stores = capacity
  /\ pcP \in {"p_while", "p_reset", "p_for", "p_step"}

ProducerEpisodePcs ==
  {"p_for", "p_step", "p_acquire", "p_release", "p_next"} \cup ProducerStorePcs

\* C13 (Spec).  Producer episode state machine: the Producer leaves its loop
\* only where it reads the stop flag, at the start of an episode, and a
\* flag set during an episode does not end the episode; an episode begins
\* with one env.reset, stores one transition per step, and ends at the
\* first step that reports done or after EP_MAXLEN steps: an episode that
\* has ended stored at least 1 and at most EP_MAXLEN transitions.
C13_ProducerEpisodes ==
  /\ [](/\ epStores <= EP_MAXLEN
        /\ (pcP \in {"p_while", "done"} /\ episodes > 0) \/ (pcP = "p_reset" /\ episodes > 1) =>
             epStores >= 1 /\ (epStores = EP_MAXLEN \/ p_s = 2)
        /\ pcP \in {"p_for", "p_step", "p_acquire"} \cup (ProducerStorePcs \ {"p_release"}) =>
             epStores = p_it
        /\ pcP \in {"p_release", "p_next"} => epStores = p_it + 1)
  /\ [][/\ pcP' = "done" /\ pcP # "done" => pcP = "p_while" /\ stop
        /\ pcP \in ProducerEpisodePcs => pcP' \in ProducerEpisodePcs \cup {"p_while"}
        /\ pcP = "p_next" /\ pcP' # pcP =>
             IF p_step.done THEN pcP' = "p_while" ELSE pcP' = "p_for"
        /\ pcP = "p_for" /\ pcP' = "p_while" => epStores = EP_MAXLEN
        /\ episodes' # episodes =>
             episodes' = episodes + 1 /\ pcP = "p_while" /\ pcP' = "p_reset" /\ ~stop
        /\ pcP = "p_reset" /\ pcP' # pcP => pcP' = "p_for" /\ epStores' = 0]_vars

\* The flag was set while the Producer was in an episode, and the Producer
\* has finished the episode, storing after the flag was set.
C13_Witness ==
  /\ pcP = "p_while"
  /\ stop
  /\ afterStop.resets = 0
  /\ afterStop.stores >= 1
  /\ epStores = EP_MAXLEN

\* C14 (Spec).  Exclusive roles and prefill before the threads: every
\* access of init_buffer to the buffer happens while neither thread has
\* been started; afterwards the arrays and the pointer are written only by
\* the Producer inside store_transition and read only by the Learner
\* inside sample, each holding LOCK, so a store never overlaps a sample or
\* another store.
C14_ExclusiveRoles ==
  /\ [](/\ pcM \in PrefillPcs => pcL = "idle" /\ pcP = "idle"
        /\ pcP \in ProducerStorePcs => lock = "producer"
        /\ pcL \in SamplePcs => lock = "learner"
        /\ ~(pcL \in SamplePcs /\ pcP \in ProducerStorePcs))
  /\ [][/\ BufferChanged =>
             \/ pcM \in MainStorePcs /\ pcM' # pcM /\ pcL = "idle" /\ pcP = "idle"
             \/ pcP \in ProducerStorePcs /\ pcP' # pcP /\ lock = "producer"
                  /\ pcM \notin PrefillPcs
        /\ batch' # batch /\ batch' # NoBatch =>
             pcL \in SamplePcs /\ pcL' # pcL /\ lock = "learner"]_vars

\* The Learner waits for LOCK while the Producer is inside store_transition,
\* between its row writes.
C14_Witness ==
  /\ pcL = "l_acquire"
  /\ pcP = "p_store_reward"
  /\ lock = "producer"
  /\ pcM = "m_join"

\* C15 (Spec).  Prefill steps like the Producer: within one episode of
\* init_buffer the state written by every store_transition after the first
\* is the s_next written by the store_transition immediately before it,
\* which sits in the row preceding the pointer.
C15_PrefillChains ==
  [][pcM = "m_store_state" /\ pcM' = "m_store_reward" /\ m_it > 0 =>
       state'[pointer].v = s_next[(pointer - 1) % capacity].v]_vars

\* The same chaining in the Producer loop, where s = s_next follows each
\* store_transition.
C15_ProducerChains ==
  [][pcP = "p_store_state" /\ pcP' = "p_store_reward" /\ p_it > 0 =>
       state'[pointer].v = s_next[(pointer - 1) % capacity].v]_vars

\* C16 (SpecTrain).  Periodic triggers: whatever value the step counter was
\* restored to, a train call decays the variance exactly when its new
\* counter value is on the period boundary, and the callback of that same
\* call, and of no other, writes the summaries.
C16_PeriodicTriggers ==
  [][counter' = counter + 1 =>
       /\ decays' = IF DecayDue(counter') THEN decays + 1 ELSE decays
       /\ summaries' = IF DecayDue(counter') THEN summaries + 1 ELSE summaries]_vars

\* C17 (Spec).  Write visibility: when sample has gathered its rows, every
\* row it returns carries, in all three fields, the transition of the last
\* store_transition into that row among those completed before the sample
\* acquired LOCK; no store completes while the sample holds LOCK, so these
\* are the first `stores` calls.
C17_WriteVisibility ==
  pcL = "l_release" =>
    /\ calls = stores
    /\ \A k \in 1 .. BATCH_SIZE :
         \E j \in {LastCall(indices[k], stores, capacity)} :
           /\ batch.s[k].w = j
           /\ batch.r[k].w = j
           /\ batch.s_next[k].w = j
           /\ batch.s[k] = state[indices[k]]
           /\ batch.r[k] = reward[indices[k]]
           /\ batch.s_next[k] = s_next[indices[k]]

\* The sample returns a transition that the Producer stored over a prefilled
\* row before the sample acquired LOCK.
C17_Witness ==
  /\ pcL = "l_release"
  /\ stores > capacity
  /\ batch.s[1].w > capacity
  /\ batch.s_next[1].w = batch.s[1].w

\* C18 (Spec).  No backpressure: a Producer about to store is held up by
\* nothing but the Learner holding LOCK at that moment, and once inside
\* store_transition each of its statements can run, whatever the Learner
\* has or has not sampled; likewise a Learner about to sample is held up by
\* nothing but the Producer holding LOCK, and each statement of sample can
\* run.
C18_NoBackpressure ==
  /\ pcP = "p_acquire" /\ lock # "learner" => ENABLED ProducerAcquire
  /\ pcP = "p_store_state" => ENABLED ProducerStoreState
  /\ pcP = "p_store_reward" => ENABLED ProducerStoreReward
  /\ pcP = "p_store_s_next" => ENABLED ProducerStoreSNext
  /\ pcP = "p_store_pointer" => ENABLED ProducerStorePointer
  /\ pcP = "p_release" => ENABLED ProducerRelease
  /\ pcL = "l_acquire" /\ lock # "producer" => ENABLED LearnerAcquire
  /\ pcL = "l_indices" => ENABLED LearnerIndices
  /\ pcL = "l_read_state" => ENABLED LearnerReadState
  /\ pcL = "l_read_reward" => ENABLED LearnerReadReward
  /\ pcL = "l_read_s_next" => ENABLED LearnerReadSNext
  /\ pcL = "l_release" => ENABLED LearnerRelease

\* While the Learner is inside train with the batch it sampled, the Producer
\* has completed stores over every row, the sampled one and the ones never
\* sampled, and is about to store again.
C18_Witness ==
  /\ pcL = "l_train"
  /\ pcP = "p_acquire"
  /\ \A i \in Rows(capacity) :
       state[i].w > batch.s[1].w /\ s_next[i].w = state[i].w

MainExited == pcM \in {"done", "raised"}

\* C19 (SpecShutdown).  Cooperative shutdown: under fair scheduling the main
\* thread reaches its exit after save; save and the exit of the main thread
\* come only after the Learner and the Producer have both left run on their
\* own, and LOCK is not held by a thread that has exited.
C19_CooperativeShutdown ==
  /\ <>(pcM = "done")
  /\ [](pcM = "m_save" \/ MainExited => pcL = "done" /\ pcP = "done")
  /\ [](/\ pcL = "done" => lock # "learner"
        /\ pcP = "done" => lock # "producer")

\* The same run without the grace period ever expiring (SpecFair): prefill
\* returns, the Learner requests stop, the Producer exits, join returns and
\* the main thread ends after save.
C19_TerminatesInTime ==
  /\ <>(pcM = "done")
  /\ [](pcM = "m_save" \/ MainExited => pcL = "done" /\ pcP = "done" /\ lock = "free")

\* The Learner's distance from its exit: the iterations left, then the
\* statements left in the current one.
LearnerRank ==
  CASE pcL = "idle" -> (N_ITERS + 1) * 10
    [] pcL = "l_for" -> (N_ITERS - l_it) * 10 + 9
    [] pcL = "l_acquire" -> (N_ITERS - l_it) * 10 + 8
    [] pcL = "l_indices" -> (N_ITERS - l_it) * 10 + 7
    [] pcL = "l_read_state" -> (N_ITERS - l_it) * 10 + 6
    [] pcL = "l_read_reward" -> (N_ITERS - l_it) * 10 + 5
    [] pcL = "l_read_s_next" -> (N_ITERS - l_it) * 10 + 4
    [] pcL = "l_release" -> (N_ITERS - l_it) * 10 + 3
    [] pcL = "l_train" -> (N_ITERS - l_it) * 10 + 2
    [] pcL = "l_stop" -> 1
    [] OTHER -> 0

\* C20 (SpecEnvError).  An exception of env.reset or env.step ends the
\* Producer for good and nothing else: it is raised outside the locked
\* region, so the dead Producer does not hold LOCK and every row holds the
\* three fields of one completed store_transition; from then on the buffer
\* does not change.  The Learner is not held up: outside train, which
\* waits for nothing, it always has a statement it can run until it has
\* exited, each of its steps brings it nearer to its exit, and it exits only
\* with N_ITERS train calls made and stop requested.
C20_EnvErrorFatalToProducer ==
  /\ [](pcP = "raised" =>
          /\ lock # "producer"
          /\ calls = stores
          /\ \A i \in Rows(capacity) :
               state[i].w = reward[i].w /\ reward[i].w = s_next[i].w
          /\ pcL \notin {"l_train", "done"} =>
               ENABLED (\/ LearnerFor \/ LearnerAcquire \/ LearnerIndices
                        \/ LearnerReadState \/ LearnerReadReward
                        \/ LearnerReadSNext \/ LearnerRelease \/ LearnerStop)
          /\ pcL = "done" => stop /\ fcounter = N_ITERS /\ l_it = N_ITERS)
  /\ [][/\ pcP' = "raised" /\ pcP # "raised" =>
             pcP \in {"p_reset", "p_step"} /\ UNCHANGED <<bufVars, lock, stop, learnerVars>>
        /\ pcP = "raised" => pcP' = "raised" /\ UNCHANGED bufVars
        /\ <<pcL, l_it>>' # <<pcL, l_it>> =>
             LearnerRank' < LearnerRank /\ LearnerRank' >= 0]_vars

\* Hence, with the Learner scheduled (LearnerRuns), a run in which the
\* Producer has died leads to the Learner's exit with stop requested.
C20_LearnerCompletes ==
  (pcP = "raised") ~> (pcL = "done" /\ stop /\ fcounter = N_ITERS)

\* The Producer died after it had stored over a prefilled row; the Learner
\* has finished its iterations and requested stop, and the main thread has
\* saved and ended.
C20_Witness ==
  /\ pcP = "raised"
  /\ stores > capacity
  /\ pcL = "done"
  /\ stop
  /\ fcounter = N_ITERS
  /\ pcM = "done"

====
